---- MODULE Spec2Model ----
(***************************************************************************)
(* reqx: one logical request of a RequestBuilder, from the call of         *)
(* Do / DoRaw / DoStream / MultipartFormBuilder.Do to its return.          *)
(*                                                                         *)
(* The state is the RequestBuilder and Client fields the request reads or  *)
(* writes, the locals of executeWithRetry, the position of the single-use  *)
(* request stream, the response bodies the transport has opened, and a     *)
(* history of what was handed to the transport and of the sleeps.          *)
(* The transport is the environment: each call of client.Do picks an       *)
(* outcome (a classified error or a status) and how much of the request    *)
(* body it read.                                                           *)
(***************************************************************************)
EXTENDS Integers, Sequences, FiniteSets, TLC

VARIABLES
    maxRetries,         \* Client.retryConfig.MaxRetries
    backoffMs,          \* Client.retryConfig.BackoffMs
    urlOk,              \* url.Parse(baseUrl + path) succeeds
    methodOk,           \* string(b.method) is a valid HTTP method
    clientContentType,  \* Client.contentType
    body,               \* dynamic type of RequestBuilder.body
    formData,           \* the MultipartFormData plan (body or builder's formData)
    contentType,        \* RequestBuilder.contentType
    streamPos,          \* bytes already read from the single-use request stream
    boundaries,         \* number of multipart boundary tokens generated so far
    mode,               \* which of Do / DoRaw / DoStream is executing
    pc,                 \* position in executeWithRetry
    attempt,            \* loop variable of executeWithRetry
    resp,               \* resp of the current iteration
    err,                \* err of the current iteration
    lastResp,           \* executeWithRetry's lastResp
    lastErr,            \* executeWithRetry's lastErr
    events,             \* history: fn invocations and completed sleeps, in order
    sent,               \* history: requests handed to client.Do
    bodies,             \* response bodies opened by the transport
    ret                 \* what the call returned to its caller

\* The maps of a Client and of the RequestBuilders created from it.
VARIABLES
    heap,               \* the Go maps, by identity: key -> value
    rb,                 \* per RequestBuilder: created, and the maps its fields refer to
    oauth1,             \* Client.oauth1 # nil
    baseQuery,          \* the query string of baseUrl + path: key -> values
    defaults,           \* history: the client's query and header defaults at Build
    own,                \* history: what each request passed to QueryParam / Header
    ctSelected,         \* history: the request called a content-type setter
    accesses,           \* history: which request read or wrote which map
    out                 \* per RequestBuilder: the request its last attempt built

\* One call of generateOAuth1Signature.
VARIABLES
    oauthParams,        \* params, the oauth parameter map passed in: key -> value
    urlQuery,           \* u.Query() of the full URL: key -> values
    signed,             \* the call has built its parameter string
    paramParts          \* paramParts: per pair its key and its "key=value" text

\* One call of buildMultipartForm: its writer goroutine, the pipe, and the
\* holder of the read end.
VARIABLES
    wpc,                \* position of the writer goroutine
    item,               \* index of the write the goroutine is at
    srcPos,             \* chunks io.Copy has read from the current file.Reader
    writeErr,           \* writeErr of the goroutine
    pw,                 \* the Write blocked on the pipe, if any
    pipe,               \* io.Pipe: closed by the writer (and with what), by the reader
    received,           \* what Reads of the pipe returned so far
    readResult,         \* the error a Read of the pipe returned: EOF or an error
    rd                  \* who holds the read end

requestVars == <<maxRetries, backoffMs, urlOk, methodOk, clientContentType, body,
                 formData, contentType, streamPos, boundaries, mode, pc, attempt,
                 resp, err, lastResp, lastErr, events, sent, bodies, ret>>

builderVars == <<heap, rb, oauth1, baseQuery, defaults, own, ctSelected, accesses, out>>

signVars == <<oauthParams, urlQuery, signed, paramParts>>

pipeVars == <<wpc, item, srcPos, writeErr, pw, pipe, received, readResult, rd>>

vars == <<requestVars, builderVars, signVars, pipeVars>>

-----------------------------------------------------------------------------
(* Bounds of the model *)

MaxRetriesBound == 2
StreamLen == 2

-----------------------------------------------------------------------------
(* Values *)

\* ContentType (a string in the code): the media type and, for the value the
\* multipart writer produces, the boundary token (0: no boundary parameter).
CT(media, boundary) == [media |-> media, boundary |-> boundary]

ContentTypeFormUrlencoded == CT("application/x-www-form-urlencoded", 0)
ContentTypeJSON == CT("application/json; charset=UTF-8", 0)
ContentTypeMultipartForm == CT("multipart/form-data", 0)
EmptyContentType == CT("", 0)

StatusInternalServerError == 500
StatusTooManyRequests == 429

\* Status codes the transport answers with in the model.
Statuses == {200, 404, StatusTooManyRequests, StatusInternalServerError}

\* Errors of client.Do and of io.ReadAll, by the class shouldRetry tests:
\* "timeout" is a net.Error whose Timeout() is true, "dns" a *net.DNSError,
\* "other" anything else.
TransportErrors == {"timeout", "dns", "other"}
ReadErrors == {"timeout", "other"}

ErrInvalidBody == "reqx.invalid_body"
ErrMaxRetriesExceeded == "reqx.max_retries_exceeded"
ErrInvalidMethod == "net/http: invalid method"

NilResp == [present |-> FALSE, Status |-> 0, Body |-> "nil", BodyReader |-> 0]

Response(status, bodyBytes, reader) ==
    [present |-> TRUE, Status |-> status, Body |-> bodyBytes, BodyReader |-> reader]

\* The bytes the single-use request stream held when it was handed over.
StreamContent == [i \in 1..StreamLen |-> i]

\* What is still readable from the stream.
Remainder == SubSeq(StreamContent, streamPos + 1, StreamLen)

Part(name, content) == [name |-> name, content |-> content]

NoBody == [kind |-> "nil", boundary |-> 0, parts |-> <<>>]

FormField(name, value) == [Name |-> name, Value |-> value]
FormFile(fieldName, data, reader) ==
    [FieldName |-> fieldName, Data |-> data, Reader |-> reader]

NoPlan == [present |-> FALSE, Fields |-> <<>>, Files |-> <<>>]
Plan(fields, files) == [present |-> TRUE, Fields |-> fields, Files |-> files]

\* The plans a MultipartFormBuilder holds in the model: one field, and no
\* file, a file from bytes (AddFile) or a file from a reader (AddFileReader).
Plans ==
    { Plan(<<FormField("a", <<1>>)>>, <<>>),
      Plan(<<FormField("a", <<1>>)>>, <<FormFile("f", <<8, 9>>, FALSE)>>),
      Plan(<<FormField("a", <<1>>)>>, <<FormFile("f", <<>>, TRUE)>>) }

\* The client configurations of the model, besides MaxRetries: the builder's
\* defaults (backoff 1000 ms, no content type), and a client built with
\* RetryConfig(_, 2000) and FormUrlencodedContentType().
ClientConfigs ==
    { [BackoffMs |-> 1000, contentType |-> EmptyContentType],
      [BackoffMs |-> 2000, contentType |-> ContentTypeFormUrlencoded] }

BodyKinds == {"nil", "bytes", "reader", "struct", "values", "formdata"}

-----------------------------------------------------------------------------
(* Retry policy *)

\* Variants of shouldRetry with one classification wrong.
shouldRetry_DnsOnly(e, statusCode) ==
    IF e # "nil"
    THEN e = "dns"
    ELSE statusCode >= StatusInternalServerError \/ statusCode = StatusTooManyRequests

shouldRetry_Only5xx(e, statusCode) ==
    IF e # "nil"
    THEN e = "timeout" \/ e = "dns"
    ELSE statusCode >= StatusInternalServerError

shouldRetry_AnyError(e, statusCode) ==
    IF e # "nil"
    THEN TRUE
    ELSE statusCode >= StatusInternalServerError \/ statusCode = StatusTooManyRequests

shouldRetry(e, statusCode) ==
    IF e # "nil"
    THEN e = "timeout" \/ e = "dns"
    ELSE statusCode >= StatusInternalServerError \/ statusCode = StatusTooManyRequests

\* A backoff that counts the attempt from zero.
backoffDuration_FromZero(a) == backoffMs * a

\* A backoff that does not grow.
backoffDuration_Constant(a) == backoffMs

\* backoffMs*(attempt+1), the argument of time.Duration(...) * time.Millisecond
backoffDuration(a) == backoffMs * (a + 1)

-----------------------------------------------------------------------------
(* Building one attempt's request *)

\* The parts the writer task writes: every field, then every file; a file
\* with a Reader is copied from the reader's current position.
FieldParts(plan) ==
    [i \in 1..Len(plan.Fields) |-> Part(plan.Fields[i].Name, plan.Fields[i].Value)]

FileParts(plan) ==
    [i \in 1..Len(plan.Files) |->
        Part(plan.Files[i].FieldName,
             IF plan.Files[i].Reader THEN Remainder ELSE plan.Files[i].Data)]

buildMultipartForm(plan) ==
    LET token == boundaries + 1 IN
    [stream |-> [kind |-> "multipart", boundary |-> token,
                 parts |-> FieldParts(plan) \o FileParts(plan)],
     contentType |-> CT("multipart/form-data", token)]

\* Whether the request body reads from the single-use stream.
UsesStream(buf) ==
    \/ buf.kind = "reader"
    \/ buf.kind = "multipart" /\ \E i \in 1..Len(formData.Files) : formData.Files[i].Reader

\* Lines 228-264 of buildRequest: the body reader, the builder's content type
\* afterwards, and whether the multipart encoder was started.
BodyOf ==
    LET plain(buf) == [err |-> "nil", buf |-> buf, contentType |-> contentType, encoded |-> FALSE]
        failed(e) == [err |-> e, buf |-> NoBody, contentType |-> contentType, encoded |-> FALSE]
    IN  CASE body = "nil" -> plain(NoBody)
          [] body = "reader" ->
                plain([kind |-> "reader", boundary |-> 0, parts |-> <<Part("", Remainder)>>])
          [] body = "bytes" ->
                plain([kind |-> "bytes", boundary |-> 0, parts |-> <<Part("", StreamContent)>>])
          [] OTHER ->
                CASE contentType = ContentTypeJSON ->
                        plain([kind |-> "json", boundary |-> 0, parts |-> <<Part("", <<3>>)>>])
                  [] contentType = ContentTypeFormUrlencoded ->
                        IF body = "values"
                        THEN plain([kind |-> "form", boundary |-> 0, parts |-> <<Part("", <<4>>)>>])
                        ELSE failed(ErrInvalidBody)
                  [] contentType = ContentTypeMultipartForm ->
                        IF body = "formdata"
                        THEN LET m == buildMultipartForm(formData) IN
                             [err |-> "nil", buf |-> m.stream,
                              contentType |-> m.contentType, encoded |-> TRUE]
                        ELSE failed(ErrInvalidBody)
                  [] OTHER -> plain(NoBody)

\* Lines 286-294: the Content-Type header, given the builder's content type.
ContentTypeHeader(ct) ==
    IF body # "nil"
    THEN IF ct # EmptyContentType THEN ct
         ELSE IF clientContentType # EmptyContentType THEN clientContentType
         ELSE EmptyContentType
    ELSE EmptyContentType

buildRequest ==
    LET b == BodyOf IN
    IF b.err # "nil" THEN [b EXCEPT !.buf = NoBody] @@ [header |-> EmptyContentType]
    ELSE IF ~methodOk
         THEN [b EXCEPT !.err = ErrInvalidMethod] @@ [header |-> EmptyContentType]
         ELSE b @@ [header |-> ContentTypeHeader(b.contentType)]

-----------------------------------------------------------------------------
(* The attempt function of each mode, after client.Do has answered *)

\* A Do / DoRaw that closes the body after io.ReadAll instead of deferring
\* the close, and so leaves it open when ReadAll fails.
BufferedResult_CloseAfterRead(status, readErr) ==
    IF readErr # "nil"
    THEN [resp |-> NilResp, err |-> readErr,
          opened |-> [attempt |-> attempt, closes |-> 0, read |-> "failed"]]
    ELSE [resp |-> Response(status, "bytes", 0), err |-> "nil",
          opened |-> [attempt |-> attempt, closes |-> 1, read |-> "all"]]

\* Do / DoRaw: io.ReadAll, then the deferred resp.Body.Close(). readErr is
\* "nil" when ReadAll succeeded.
BufferedResult(status, readErr) ==
    IF readErr # "nil"
    THEN [resp |-> NilResp, err |-> readErr,
          opened |-> [attempt |-> attempt, closes |-> 1, read |-> "failed"]]
    ELSE [resp |-> Response(status, "bytes", 0), err |-> "nil",
          opened |-> [attempt |-> attempt, closes |-> 1, read |-> "all"]]

\* DoStream: the body is handed on unread. Its BodyReader is the index of the
\* body in bodies.
StreamResult(status) ==
    [resp |-> Response(status, "nil", Len(bodies) + 1), err |-> "nil",
     opened |-> [attempt |-> attempt, closes |-> 0, read |-> "none"]]

\* A return of lastResp and lastErr as they are.
Finish_LastErrOnly(r, e) == [resp |-> r, err |-> e]

\* Lines 59-63 of executeWithRetry.
Finish(r, e) ==
    IF e # "nil" THEN [resp |-> r, err |-> e]
    ELSE [resp |-> r, err |-> ErrMaxRetriesExceeded]

\* History entries: fn was invoked as attempt n and ended with e (and, when
\* it returned a response, its status); time.Sleep(ms) has returned.
AttemptEvent(n, e, status) == [type |-> "attempt", n |-> n, err |-> e, status |-> status]
SleepEvent(ms) == [type |-> "sleep", n |-> ms, err |-> "nil", status |-> 0]

-----------------------------------------------------------------------------
(* The maps of the client and of its request builders *)

\* The RequestBuilders created from one client.
Reqs == {1, 2}

\* A key that a map does not hold.
None == "none"

QueryKeys == {"j", "k"}

\* Header keys as the caller spells them; req.Header.Set stores a value under
\* the canonical form of its key.
HeaderKeys == {"X-A", "x-a", "Content-Type", "Authorization"}

CanonicalHeaderKey(k) == IF k = "x-a" THEN "X-A" ELSE k

HeaderKeyOrder == <<"Authorization", "Content-Type", "X-A", "x-a">>

HeaderNames == {CanonicalHeaderKey(k) : k \in HeaderKeys}

Keys == QueryKeys \cup HeaderKeys

EmptyMap == [k \in Keys |-> None]

\* The identities of the maps: the two maps NewClientBuilder makes, and the
\* headers map NewRequestBuilder makes for each request.
ClientQueryParams == "client.queryParams"
ClientHeaders == "client.headers"
RequestHeaders(r) == IF r = 1 THEN "request1.headers" ELSE "request2.headers"
MapIds == {ClientQueryParams, ClientHeaders} \cup {RequestHeaders(r) : r \in Reqs}

\* A RequestBuilder: the maps its queryParams and headers fields refer to,
\* its contentType, and whether its body is non-nil.
NoBuilder == [created |-> FALSE, queryParams |-> "nil", headers |-> "nil",
              contentType |-> EmptyContentType, body |-> FALSE]

\* What an attempt built: the URL's query and the request's headers; and
\* (history) the builder it was built from, what the request had passed to
\* QueryParam and Header, and whether it had selected a content type.
NoRequest == [built |-> FALSE,
              query |-> [k \in QueryKeys |-> <<>>],
              headers |-> [n \in HeaderNames |-> None],
              builder |-> NoBuilder,
              asked |-> EmptyMap,
              selected |-> FALSE]

\* No client maps and no request builders: the state of this part while a
\* single request is followed through executeWithRetry.
BuilderIdle ==
    /\ heap = [m \in MapIds |-> EmptyMap]
    /\ rb = [r \in Reqs |-> NoBuilder]
    /\ oauth1 = FALSE
    /\ baseQuery = [k \in QueryKeys |-> <<>>]
    /\ defaults = [query |-> EmptyMap, headers |-> EmptyMap]
    /\ own = [r \in Reqs |-> EmptyMap]
    /\ ctSelected = [r \in Reqs |-> FALSE]
    /\ accesses = {}
    /\ out = [r \in Reqs |-> NoRequest]

\* Byte strings are sequences of byte values.
EmptyParams == [k \in {} |-> <<>>]

\* No signature is being computed.
SignIdle ==
    /\ oauthParams = EmptyParams
    /\ urlQuery = EmptyParams
    /\ signed = FALSE
    /\ paramParts = <<>>

\* What one Write hands to the pipe: a part's header (boundary and
\* Content-Disposition with the name), a piece of a part's content, or the
\* closing boundary.
Chunk(kind, name, data) == [kind |-> kind, name |-> name, data |-> data]
NoChunk == Chunk("none", "", <<>>)

OpenPipe == [wclosed |-> FALSE, werr |-> "nil", rclosed |-> FALSE]

\* No multipart encoding was started.
PipeIdle ==
    /\ wpc = "none"
    /\ item = 0
    /\ srcPos = 0
    /\ writeErr = "nil"
    /\ pw = NoChunk
    /\ pipe = OpenPipe
    /\ received = <<>>
    /\ readResult = "none"
    /\ rd = "none"

-----------------------------------------------------------------------------
(* Initial state: a built Client and a configured RequestBuilder *)

Init ==
    /\ maxRetries \in -1..MaxRetriesBound
    /\ \E c \in ClientConfigs :
          backoffMs = c.BackoffMs /\ clientContentType = c.contentType
    /\ urlOk \in BOOLEAN
    /\ methodOk \in BOOLEAN
    /\ body \in BodyKinds
    /\ formData \in Plans \cup {NoPlan}
    /\ body = "formdata" => formData # NoPlan
    /\ body \notin {"formdata", "nil"} => formData = NoPlan
    /\ contentType \in {ContentTypeJSON, ContentTypeFormUrlencoded, ContentTypeMultipartForm}
    /\ streamPos = 0
    /\ boundaries = 0
    /\ mode = "none"
    /\ pc = "start"
    /\ attempt = 0
    /\ resp = NilResp
    /\ err = "nil"
    /\ lastResp = NilResp
    /\ lastErr = "nil"
    /\ events = <<>>
    /\ sent = <<>>
    /\ bodies = <<>>
    /\ ret = [resp |-> NilResp, err |-> "nil"]
    /\ BuilderIdle
    /\ SignIdle
    /\ PipeIdle

config == <<maxRetries, backoffMs, urlOk, methodOk, clientContentType>>

-----------------------------------------------------------------------------
(* Entry points *)

\* The call enters executeWithRetry: lines 25-31.
Enter(m) ==
    /\ pc = "start"
    /\ mode' = m
    /\ pc' = "call"
    /\ attempt' = 0
    /\ lastResp' = NilResp
    /\ lastErr' = "nil"
    /\ UNCHANGED <<builderVars, signVars, pipeVars, config, streamPos, boundaries, resp, err, events, sent, bodies, ret>>

Do == Enter("Do") /\ UNCHANGED <<body, formData, contentType>>

DoRaw == Enter("DoRaw") /\ UNCHANGED <<body, formData, contentType>>

DoStream == Enter("DoStream") /\ UNCHANGED <<body, formData, contentType>>

MultipartDo ==
    /\ formData # NoPlan
    /\ contentType' = ContentTypeMultipartForm
    /\ body' = "formdata"
    /\ Enter("Do")
    /\ UNCHANGED formData

-----------------------------------------------------------------------------
(* One invocation of fn *)

\* buildUrl, buildRequest and client.Do, then the mode's handling of the
\* transport's answer. buffered: Do and DoRaw.
Fn(buffered) ==
    /\ pc = "call"
    /\ attempt <= maxRetries
    /\ IF ~urlOk
       THEN \* url.Parse fails, u is nil and u.Query() dereferences it
            /\ pc' = "panic"
            /\ UNCHANGED <<contentType, boundaries, streamPos, sent, bodies, resp, err>>
       ELSE LET rq == buildRequest IN
            /\ pc' = "eval"
            /\ contentType' = rq.contentType
            /\ boundaries' = IF rq.encoded THEN boundaries + 1 ELSE boundaries
            /\ IF rq.err # "nil"
               THEN /\ resp' = NilResp
                    /\ err' = rq.err
                    /\ UNCHANGED <<streamPos, sent, bodies>>
               ELSE /\ sent' = Append(sent, [attempt |-> attempt, buf |-> rq.buf,
                                             header |-> rq.header])
                    /\ \E n \in 0..(IF UsesStream(rq.buf) THEN StreamLen - streamPos ELSE 0) :
                          streamPos' = streamPos + n
                    /\ \/ \E e \in TransportErrors :
                            /\ resp' = NilResp
                            /\ err' = e
                            /\ UNCHANGED bodies
                       \/ \E s \in Statuses :
                          \E r \in IF buffered
                                   THEN {BufferedResult(s, e) : e \in ReadErrors \cup {"nil"}}
                                   ELSE {StreamResult(s)} :
                            /\ resp' = r.resp
                            /\ err' = r.err
                            /\ bodies' = Append(bodies, r.opened)
    /\ events' = Append(events, AttemptEvent(attempt,
                                             IF pc' = "panic" THEN "panic" ELSE err',
                                             resp'.Status))
    /\ UNCHANGED <<builderVars, signVars, pipeVars, config, body, formData, mode, attempt, lastResp, lastErr, ret>>

DoFn == mode = "Do" /\ Fn(TRUE)

DoRawFn == mode = "DoRaw" /\ Fn(TRUE)

DoStreamFn == mode = "DoStream" /\ Fn(FALSE)

-----------------------------------------------------------------------------
(* executeWithRetry *)

Return(r, e) ==
    /\ pc' = "done"
    /\ ret' = [resp |-> r, err |-> e]

\* Lines 34-54: what the loop does with the outcome of fn.
Evaluate ==
    /\ pc = "eval"
    /\ IF err = "nil" /\ ~shouldRetry("nil", resp.Status)
       THEN /\ Return(resp, "nil")
            /\ UNCHANGED <<lastResp, lastErr>>
       ELSE /\ lastErr' = err
            /\ lastResp' = resp
            /\ IF attempt = maxRetries
               THEN LET f == Finish(resp, err) IN Return(f.resp, f.err)
               ELSE LET retry == \/ shouldRetry(err, 0)
                                 \/ resp.present /\ shouldRetry("nil", resp.Status)
                    IN  IF ~retry
                        THEN LET f == Finish(resp, err) IN Return(f.resp, f.err)
                        ELSE pc' = "sleep" /\ UNCHANGED ret
    /\ UNCHANGED <<builderVars, signVars, pipeVars, config, body, formData, contentType, streamPos, boundaries, mode,
                   attempt, resp, err, events, sent, bodies>>

\* Line 56 and the loop's attempt++.
Sleep ==
    /\ pc = "sleep"
    /\ events' = Append(events, SleepEvent(backoffDuration(attempt)))
    /\ attempt' = attempt + 1
    /\ pc' = "call"
    /\ UNCHANGED <<builderVars, signVars, pipeVars, config, body, formData, contentType, streamPos, boundaries, mode,
                   resp, err, lastResp, lastErr, sent, bodies, ret>>

\* The loop condition attempt <= maxRetries is false: lines 59-63.
LoopEnd ==
    /\ pc = "call"
    /\ attempt > maxRetries
    /\ LET f == Finish(lastResp, lastErr) IN Return(f.resp, f.err)
    /\ UNCHANGED <<builderVars, signVars, pipeVars, config, body, formData, contentType, streamPos, boundaries, mode,
                   attempt, resp, err, lastResp, lastErr, events, sent, bodies>>

Next ==
    \/ Do
    \/ DoRaw
    \/ DoStream
    \/ MultipartDo
    \/ DoFn
    \/ DoRawFn
    \/ DoStreamFn
    \/ Evaluate
    \/ Sleep
    \/ LoopEnd

Spec == Init /\ [][Next]_vars

-----------------------------------------------------------------------------
(* Reading the history *)

AttemptIdx == {i \in 1..Len(events) : events[i].type = "attempt"}
SleepIdx == {i \in 1..Len(events) : events[i].type = "sleep"}
Attempts == Cardinality(AttemptIdx)

\* The attempt completed: fn returned a response and a nil error.
Completed(ev) == ev.type = "attempt" /\ ev.err = "nil"
RetryableStatus(st) == st >= 500 \/ st = 429

\* The attempt failed with an error that is neither a timeout nor a DNS failure.
TerminalError(ev) ==
    ev.type = "attempt" /\ ev.err \notin {"nil", "panic", "timeout", "dns"}

AllTimeouts == \A i \in AttemptIdx : events[i].err = "timeout"

-----------------------------------------------------------------------------
(* C1 *)

\* C1: with maxRetries = N >= 0 and every attempt failing with a timeout, the
\* call has invoked fn exactly N+1 times when it returns, and it returns a
\* non-nil error.
C1_TimeoutsExhaustBudget ==
    (pc = "done" /\ maxRetries >= 0 /\ AllTimeouts)
        => (Attempts = maxRetries + 1 /\ ret.err # "nil")

C1_Witness ==
    pc = "done" /\ maxRetries = MaxRetriesBound /\ AllTimeouts
        /\ Attempts = MaxRetriesBound + 1 /\ ret.err = "timeout"

-----------------------------------------------------------------------------
(* C2 *)

\* C2: a completed attempt with status 429 or >= 500 and index below
\* maxRetries never ends the request: the loop goes on to the sleep and then
\* stands at the call of attempt index+1, within the budget. A completed attempt with any other status is the
\* last event and is returned with a nil error; on attempt 0 that is after
\* exactly one attempt and no sleep.
C2_StatusDecidesRetry ==
    \A i \in AttemptIdx :
        Completed(events[i]) =>
            IF RetryableStatus(events[i].status)
            THEN /\ (events[i].n < maxRetries /\ i = Len(events)) => pc \in {"eval", "sleep"}
                 /\ (events[i].n < maxRetries /\ i = Len(events) - 1) =>
                        /\ events[Len(events)].type = "sleep"
                        /\ pc = "call"
                        /\ attempt = events[i].n + 1
                        /\ attempt <= maxRetries
            ELSE /\ i = Len(events)
                 /\ pc \in {"eval", "done"}
                 /\ pc = "done" =>
                        /\ ret.err = "nil"
                        /\ ret.resp.present
                        /\ ret.resp.Status = events[i].status
                 /\ events[i].n = 0 => Len(events) = 1

C2_Witness ==
    /\ pc = "done"
    /\ Len(events) = 3
    /\ Completed(events[1]) /\ events[1].status = 429
    /\ events[2].type = "sleep"
    /\ Completed(events[3]) /\ events[3].status = 404
    /\ ret.err = "nil" /\ ret.resp.Status = 404

-----------------------------------------------------------------------------
(* C3 *)

\* The error url.Parse returns for a URL that does not parse.
ErrUrlParse == "parse"

\* C3: when the URL is malformed and maxRetries > 0, the call does not end
\* abnormally; it returns the parse error after exactly one attempt.
C3_MalformedUrlSurfaced ==
    (~urlOk /\ maxRetries > 0 /\ Attempts >= 1) =>
        /\ pc # "panic"
        /\ pc = "done" => (ret.err = ErrUrlParse /\ Attempts = 1)

-----------------------------------------------------------------------------
(* C4 *)

\* The last attempt's event, when there is one.
LastAttempt == events[CHOOSE i \in AttemptIdx : \A j \in AttemptIdx : j <= i]

BudgetExhaustedOnStatus ==
    /\ AttemptIdx # {}
    /\ LastAttempt.n = maxRetries
    /\ Completed(LastAttempt)
    /\ RetryableStatus(LastAttempt.status)

\* C4: the call returns ErrMaxRetriesExceeded exactly when the last attempt
\* had index maxRetries and completed with a retryable status; the response
\* returned with it is that attempt's; a last attempt that failed with an
\* error returns that error.
C4_MaxRetriesExceededIff ==
    pc = "done" =>
        /\ (ret.err = ErrMaxRetriesExceeded) <=> BudgetExhaustedOnStatus
        /\ ret.err = ErrMaxRetriesExceeded =>
                (ret.resp.present /\ ret.resp.Status = LastAttempt.status /\ ret.resp = resp)
        /\ (AttemptIdx # {} /\ LastAttempt.err # "nil") => ret.err = LastAttempt.err

\* C4 for the configurations that make at least one attempt (maxRetries >= 0).
C4_MaxRetriesExceededIffNonNegative ==
    maxRetries >= 0 => C4_MaxRetriesExceededIff

-----------------------------------------------------------------------------
(* C5 *)

\* C5: an attempt that fails with an error other than a timeout or a DNS
\* failure, at whatever index, is the last event of the request (no sleep and
\* no attempt after it), and the call returns that same error.
C5_OtherErrorsTerminal ==
    \A i \in AttemptIdx :
        TerminalError(events[i]) =>
            /\ i = Len(events)
            /\ pc \in {"eval", "done"}
            /\ pc = "done" => ret.err = events[i].err

C5_Witness ==
    /\ pc = "done"
    /\ Len(events) = 3
    /\ events[3].type = "attempt" /\ events[3].n = 1 /\ events[3].err = "other"
    /\ events[3].n < maxRetries
    /\ ret.err = "other"

-----------------------------------------------------------------------------
(* C6 *)

\* C6: the history alternates attempt, sleep, attempt, ...: it starts with
\* attempt 0, the k-th attempt has index k-1, the sleep after attempt i lasts
\* backoffMs*(i+1) milliseconds, and a request that has ended ends with an
\* attempt.
C6_LinearBackoff ==
    /\ \A i \in 1..Len(events) :
          IF i % 2 = 1
          THEN events[i].type = "attempt" /\ events[i].n = (i - 1) \div 2
          ELSE events[i].type = "sleep" /\ events[i].n = backoffMs * (events[i-1].n + 1)
    /\ (pc \in {"done", "panic"} /\ events # <<>>) => events[Len(events)].type = "attempt"

C6_Witness ==
    /\ pc = "done"
    /\ backoffMs = 1000
    /\ Len(events) = 5
    /\ events[2] = SleepEvent(1000)
    /\ events[4] = SleepEvent(2000)

-----------------------------------------------------------------------------
(* C7 *)

\* The request body is a single-use stream: BodyReader, or a multipart plan
\* with a file given by AddFileReader.
SingleUseBody ==
    \/ body = "reader"
    \/ /\ body = "formdata"
       /\ contentType.media = "multipart/form-data"
       /\ \E i \in 1..Len(formData.Files) : formData.Files[i].Reader

\* The request's body yields the whole content of the stream.
CarriesFullStream(buf) ==
    \E p \in 1..Len(buf.parts) : buf.parts[p].content = StreamContent

\* C7: every retry that is handed to the transport with a single-use stream
\* body carries the stream's full content (a rejected retry is not handed to
\* the transport at all).
C7_RetryBodyFresh ==
    \A i \in 1..Len(sent) :
        (SingleUseBody /\ sent[i].attempt > 0) => CarriesFullStream(sent[i].buf)

-----------------------------------------------------------------------------
(* C8 *)

MultipartRequest == body = "formdata" /\ contentType.media = "multipart/form-data"

\* C8: every attempt of a multipart request hands the transport the stream of
\* the multipart encoder, with the Content-Type header multipart/form-data
\* carrying the boundary of that same stream.
C8_MultipartEveryAttempt ==
    \A i \in 1..Len(sent) :
        MultipartRequest =>
            /\ sent[i].buf.kind = "multipart"
            /\ sent[i].buf.boundary > 0
            /\ sent[i].header = CT("multipart/form-data", sent[i].buf.boundary)

-----------------------------------------------------------------------------
(* C9 *)

\* C9: in DoStream every response body is closed, or is the body of the
\* attempt whose outcome is being evaluated, or is the BodyReader of the
\* response returned with a nil error.
C9_StreamBodiesReleased ==
    mode = "DoStream" =>
        \A j \in 1..Len(bodies) :
            \/ bodies[j].closes >= 1
            \/ pc = "eval" /\ resp.BodyReader = j
            \/ pc = "done" /\ ret.err = "nil" /\ ret.resp.BodyReader = j

-----------------------------------------------------------------------------
(* C10 *)

\* C10: in Do and DoRaw every response body has been read (to the end or to
\* the read error) and closed exactly once whenever fn has returned, and no
\* response, the one being evaluated or the one returned, holds a BodyReader;
\* a response carries its bytes in Body.
C10_BufferedBodiesClosed ==
    mode \in {"Do", "DoRaw"} =>
        /\ \A j \in 1..Len(bodies) :
              bodies[j].closes = 1 /\ bodies[j].read \in {"all", "failed"}
        /\ resp.BodyReader = 0
        /\ resp.present => resp.Body = "bytes"
        /\ ret.resp.BodyReader = 0
        /\ ret.resp.present => ret.resp.Body = "bytes"

C10_Witness ==
    /\ mode = "DoRaw"
    /\ pc = "done"
    /\ Len(bodies) = 2
    /\ bodies[1].read = "failed"
    /\ bodies[2].read = "all"
    /\ ret.err = "nil"
    /\ ret.resp.Body = "bytes"

-----------------------------------------------------------------------------
(* Request builders of one client: NewRequestBuilder, the setters, and the   *)
(* URL and headers an attempt builds                                         *)

\* No attempt of executeWithRetry is followed.
AttemptIdle ==
    /\ maxRetries = 0
    /\ backoffMs = 1000
    /\ urlOk = TRUE
    /\ body = "nil"
    /\ contentType = ContentTypeJSON
    /\ streamPos = 0
    /\ boundaries = 0
    /\ mode = "none"
    /\ pc = "idle"
    /\ attempt = 0
    /\ resp = NilResp
    /\ err = "nil"
    /\ lastResp = NilResp
    /\ lastErr = "nil"
    /\ events = <<>>
    /\ sent = <<>>
    /\ bodies = <<>>
    /\ ret = [resp |-> NilResp, err |-> "nil"]

\* The single request of executeWithRetry is not followed here.
RetryIdle ==
    /\ AttemptIdle
    /\ methodOk = TRUE
    /\ formData = NoPlan

\* Values: what ClientBuilder.QueryParam / Header stored under key k, and what
\* request r passes to QueryParam / Header for key k.
ClientValue(k) ==
    IF k \in QueryKeys THEN "1" ELSE IF k = "x-a" THEN "c-lower" ELSE "c"

RequestQueryValue(r) == IF r = 1 THEN "2" ELSE "3"

RequestHeaderValue(r, k) ==
    IF k = "x-a" THEN (IF r = 1 THEN "p1-lower" ELSE "p2-lower")
    ELSE (IF r = 1 THEN "p1" ELSE "p2")

\* The Authorization value generateOAuth1Header returns.
OAuthHeader == "OAuth"

\* The maps a ClientBuilder can have filled with some of keys.
ClientMaps(keys) ==
    {[k \in Keys |-> IF k \in S THEN ClientValue(k) ELSE None] : S \in SUBSET keys}

Access(r, m, kind) == [req |-> r, map |-> m, kind |-> kind]

\* NewRequestBuilder: queryParams is the client's map itself, headers a new map.
NewRequestBuilder(r) ==
    /\ ~rb[r].created
    /\ rb' = [rb EXCEPT ![r] = [created |-> TRUE,
                                queryParams |-> ClientQueryParams,
                                headers |-> RequestHeaders(r),
                                contentType |-> ContentTypeJSON,
                                body |-> FALSE]]
    /\ heap' = [heap EXCEPT ![RequestHeaders(r)] = EmptyMap]
    /\ UNCHANGED <<requestVars, signVars, pipeVars, oauth1, baseQuery, defaults, own, ctSelected, accesses, out>>

\* RequestBuilder.QueryParam: c.queryParams[key] = value
QueryParam(r, key, value) ==
    /\ rb[r].created
    /\ heap' = [heap EXCEPT ![rb[r].queryParams][key] = value]
    /\ own' = [own EXCEPT ![r][key] = value]
    /\ accesses' = accesses \cup {Access(r, rb[r].queryParams, "write")}
    /\ UNCHANGED <<requestVars, signVars, pipeVars, rb, oauth1, baseQuery, defaults, ctSelected, out>>

\* RequestBuilder.Header: c.headers[key] = value
Header(r, key, value) ==
    /\ rb[r].created
    /\ heap' = [heap EXCEPT ![rb[r].headers][key] = value]
    /\ own' = [own EXCEPT ![r][key] = value]
    /\ accesses' = accesses \cup {Access(r, rb[r].headers, "write")}
    /\ UNCHANGED <<requestVars, signVars, pipeVars, rb, oauth1, baseQuery, defaults, ctSelected, out>>

\* RequestBuilder.Body / BodyReader with a non-nil body
Body(r) ==
    /\ rb[r].created
    /\ rb' = [rb EXCEPT ![r].body = TRUE]
    /\ UNCHANGED <<requestVars, signVars, pipeVars, heap, oauth1, baseQuery, defaults, own, ctSelected, accesses, out>>

\* RequestBuilder.JsonContentType / FormUrlencodedContentType
SetContentType(r, ct) ==
    /\ rb[r].created
    /\ rb' = [rb EXCEPT ![r].contentType = ct]
    /\ ctSelected' = [ctSelected EXCEPT ![r] = TRUE]
    /\ UNCHANGED <<requestVars, signVars, pipeVars, heap, oauth1, baseQuery, defaults, own, accesses, out>>

\* buildUrl: q := u.Query(), then q.Set(k, v) for every entry of c.queryParams.
buildUrl(r) ==
    LET params == heap[rb[r].queryParams] IN
    [k \in QueryKeys |-> IF params[k] # None THEN <<params[k]>> ELSE baseQuery[k]]

\* A range over a map visits its keys in any order. Header.Set calls for
\* different header names commute, so of the orders that differ only there one
\* is kept (names ascending); spellings of one name come in either order.
RECURSIVE Orders(_)
Orders(S) ==
    IF S = {} THEN {<<>>}
    ELSE UNION {{<<k>> \o o : o \in Orders(S \ {k})} : k \in S}

RangeOrders(m) ==
    LET Before(a, b) == \E i, j \in 1..Len(HeaderKeyOrder) :
                            i < j /\ HeaderKeyOrder[i] = a /\ HeaderKeyOrder[j] = b
    IN  {o \in Orders({k \in HeaderKeys : m[k] # None}) :
            \A i, j \in 1..Len(o) :
                (i < j /\ CanonicalHeaderKey(o[i]) # CanonicalHeaderKey(o[j]))
                    => Before(o[i], o[j])}

\* for k, v := range m { req.Header.Set(k, v) }, visiting m in order o.
RECURSIVE SetAll(_, _, _)
SetAll(h, m, o) ==
    IF o = <<>> THEN h
    ELSE SetAll([h EXCEPT ![CanonicalHeaderKey(Head(o))] = m[Head(o)]], m, Tail(o))

ApplyHeaders_RequestFirst(r, clientOrder, requestOrder) ==
    LET h0 == [n \in HeaderNames |-> None]
        h1 == IF oauth1 THEN [h0 EXCEPT !["Authorization"] = OAuthHeader] ELSE h0
        h2 == SetAll(h1, heap[rb[r].headers], requestOrder)
        h3 == SetAll(h2, heap[ClientHeaders], clientOrder)
        h4 == IF rb[r].body /\ clientContentType # EmptyContentType
              THEN [h3 EXCEPT !["Content-Type"] = clientContentType.media] ELSE h3
        h5 == IF rb[r].body /\ rb[r].contentType # EmptyContentType
              THEN [h4 EXCEPT !["Content-Type"] = rb[r].contentType.media] ELSE h4
    IN  h5

\* Lines 271-294 of buildRequest: Authorization when OAuth1 is configured,
\* the client's headers, the request's headers, then Content-Type when the
\* body is non-nil.
ApplyHeaders(r, clientOrder, requestOrder) ==
    LET h0 == [n \in HeaderNames |-> None]
        h1 == IF oauth1 THEN [h0 EXCEPT !["Authorization"] = OAuthHeader] ELSE h0
        h2 == SetAll(h1, heap[ClientHeaders], clientOrder)
        h3 == SetAll(h2, heap[rb[r].headers], requestOrder)
        h4 == IF rb[r].body /\ clientContentType # EmptyContentType
              THEN [h3 EXCEPT !["Content-Type"] = clientContentType.media] ELSE h3
        h5 == IF rb[r].body /\ rb[r].contentType # EmptyContentType
              THEN [h4 EXCEPT !["Content-Type"] = rb[r].contentType.media] ELSE h4
    IN  h5

\* One attempt's buildUrl and buildRequest.
Build(r) ==
    /\ rb[r].created
    /\ \E oc \in RangeOrders(heap[ClientHeaders]) :
       \E orq \in RangeOrders(heap[rb[r].headers]) :
          out' = [out EXCEPT ![r] = [built |-> TRUE,
                                     query |-> buildUrl(r),
                                     headers |-> ApplyHeaders(r, oc, orq),
                                     builder |-> rb[r],
                                     asked |-> own[r],
                                     selected |-> ctSelected[r]]]
    /\ accesses' = accesses \cup {Access(r, rb[r].queryParams, "read"),
                                  Access(r, ClientHeaders, "read"),
                                  Access(r, rb[r].headers, "read")}
    /\ UNCHANGED <<requestVars, signVars, pipeVars, heap, rb, oauth1, baseQuery, defaults, own, ctSelected>>

\* Two requests of one client, their QueryParam and Header calls and their
\* attempts interleaved.
InitShare ==
    /\ RetryIdle
    /\ clientContentType = EmptyContentType
    /\ \E q \in ClientMaps(QueryKeys) :
       \E h \in ClientMaps({"X-A"}) :
          /\ heap = [m \in MapIds |-> CASE m = ClientQueryParams -> q
                                        [] m = ClientHeaders -> h
                                        [] OTHER -> EmptyMap]
          /\ defaults = [query |-> q, headers |-> h]
    /\ rb = [r \in Reqs |-> NoBuilder]
    /\ oauth1 = FALSE
    /\ baseQuery \in {[k \in QueryKeys |-> <<>>],
                      [k \in QueryKeys |-> IF k = "k" THEN <<"0", "0">> ELSE <<>>]}
    /\ own = [r \in Reqs |-> EmptyMap]
    /\ ctSelected = [r \in Reqs |-> FALSE]
    /\ accesses = {}
    /\ out = [r \in Reqs |-> NoRequest]
    /\ SignIdle
    /\ PipeIdle

ShareNewRequestBuilder == \E r \in Reqs : NewRequestBuilder(r)

ShareQueryParam == \E r \in Reqs : QueryParam(r, "k", RequestQueryValue(r))

ShareHeader == \E r \in Reqs : Header(r, "X-A", RequestHeaderValue(r, "X-A"))

ShareBuild == \E r \in Reqs : Build(r)

NextShare ==
    \/ ShareNewRequestBuilder
    \/ ShareQueryParam
    \/ ShareHeader
    \/ ShareBuild

SpecShare == InitShare /\ [][NextShare]_vars

\* One request of a client with default headers, a default content type and
\* possibly OAuth1: its Header, Body and content-type calls, all made before
\* Do, and then its attempts.
InitHeaders ==
    /\ RetryIdle
    /\ clientContentType \in {EmptyContentType, ContentTypeFormUrlencoded}
    /\ \E h \in ClientMaps(HeaderKeys) :
          /\ heap = [m \in MapIds |-> IF m = ClientHeaders THEN h ELSE EmptyMap]
          /\ defaults = [query |-> EmptyMap, headers |-> h]
    /\ rb = [r \in Reqs |-> NoBuilder]
    /\ oauth1 \in BOOLEAN
    /\ baseQuery = [k \in QueryKeys |-> <<>>]
    /\ own = [r \in Reqs |-> EmptyMap]
    /\ ctSelected = [r \in Reqs |-> FALSE]
    /\ accesses = {}
    /\ out = [r \in Reqs |-> NoRequest]
    /\ SignIdle
    /\ PipeIdle

HeadersNewRequestBuilder == NewRequestBuilder(1)

HeadersHeader ==
    /\ ~out[1].built
    /\ \E k \in HeaderKeys : Header(1, k, RequestHeaderValue(1, k))

HeadersBody == ~out[1].built /\ Body(1)

HeadersSetContentType ==
    /\ ~out[1].built
    /\ \E ct \in {ContentTypeJSON, ContentTypeFormUrlencoded} : SetContentType(1, ct)

HeadersBuild == Build(1)

NextHeaders ==
    \/ HeadersNewRequestBuilder
    \/ HeadersHeader
    \/ HeadersBody
    \/ HeadersSetContentType
    \/ HeadersBuild

SpecHeaders == InitHeaders /\ [][NextHeaders]_vars

-----------------------------------------------------------------------------
(* generateOAuth1Signature: the parameter string of the base string          *)

\* url.QueryEscape leaves letters, digits and - _ . ~ as they are.
Unreserved(b) ==
    \/ b \in 48..57
    \/ b \in 65..90
    \/ b \in 97..122
    \/ b \in {45, 95, 46, 126}

\* "0123456789ABCDEF"[n]
UpperHex(n) == IF n < 10 THEN 48 + n ELSE 55 + n

\* url.QueryEscape: a space becomes '+', any other byte that is not
\* unreserved becomes '%' and two upper-case hex digits.
RECURSIVE QueryEscape(_)
QueryEscape(str) ==
    IF str = <<>> THEN <<>>
    ELSE LET b == Head(str)
             e == IF Unreserved(b) THEN <<b>>
                  ELSE IF b = 32 THEN <<43>>
                  ELSE <<37, UpperHex(b \div 16), UpperHex(b % 16)>>
         IN  e \o QueryEscape(Tail(str))

\* a < b for Go strings: byte-wise lexicographic order.
RECURSIVE Less(_, _)
Less(a, b) ==
    IF b = <<>> THEN FALSE
    ELSE IF a = <<>> THEN TRUE
    ELSE IF Head(a) # Head(b) THEN Head(a) < Head(b)
    ELSE Less(Tail(a), Tail(b))

\* sort.Strings of a slice that holds the strings of S once each.
RECURSIVE SortStrings_Escaped(_)
SortStrings_Escaped(S) ==
    IF S = {} THEN <<>>
    ELSE LET least == CHOOSE x \in S :
                          \A y \in S \ {x} : Less(QueryEscape(x), QueryEscape(y))
         IN  <<least>> \o SortStrings_Escaped(S \ {least})

RECURSIVE SortStrings(_)
SortStrings(S) ==
    IF S = {} THEN <<>>
    ELSE LET least == CHOOSE x \in S : \A y \in S \ {x} : Less(x, y)
         IN  <<least>> \o SortStrings(S \ {least})

\* strings.Join(parts, sep)
RECURSIVE Join(_, _)
Join(parts, sep) ==
    IF parts = <<>> THEN <<>>
    ELSE IF Len(parts) = 1 THEN parts[1]
    ELSE parts[1] \o sep \o Join(Tail(parts), sep)

Equals == <<61>>
Ampersand == <<38>>

\* The keys of the oauth parameter map.
OAuthConsumerKey == <<111, 97, 117, 116, 104, 95, 99, 111, 110, 115, 117, 109, 101, 114, 95, 107, 101, 121>>     \* "oauth_consumer_key"
OAuthNonce == <<111, 97, 117, 116, 104, 95, 110, 111, 110, 99, 101>>     \* "oauth_nonce"
OAuthSignatureMethod == <<111, 97, 117, 116, 104, 95, 115, 105, 103, 110, 97, 116, 117, 114, 101, 95, 109, 101, 116, 104, 111, 100>>     \* "oauth_signature_method"
OAuthTimestamp == <<111, 97, 117, 116, 104, 95, 116, 105, 109, 101, 115, 116, 97, 109, 112>>     \* "oauth_timestamp"
OAuthToken == <<111, 97, 117, 116, 104, 95, 116, 111, 107, 101, 110>>     \* "oauth_token"
OAuthVersion == <<111, 97, 117, 116, 104, 95, 118, 101, 114, 115, 105, 111, 110>>     \* "oauth_version"

\* The params map generateOAuth1Header passes: consumer key "c k", a nonce
\* "n-1", "HMAC-SHA1", timestamp "17", token "t/k", "1.0".
OAuthParams ==
    (OAuthConsumerKey :> <<99, 32, 107>>) @@ (OAuthNonce :> <<110, 45, 49>>)
        @@ (OAuthSignatureMethod :> <<72, 77, 65, 67, 45, 83, 72, 65, 49>>) @@ (OAuthTimestamp :> <<49, 55>>)
        @@ (OAuthToken :> <<116, 47, 107>>) @@ (OAuthVersion :> <<49, 46, 48>>)

\* Keys a URL's query can hold in the model: "a", "a1", "a|", "az", "a b",
\* and "oauth_nonce", which collides with an oauth parameter.
UrlQueryKeys == {<<97>>, <<97, 49>>, <<97, 124>>, <<97, 122>>, <<97, 32, 98>>, OAuthNonce}

\* The values of one query key: "v", or "x y" followed by "w".
UrlQueryValues == {<<<<118>>>>, <<<<120, 32, 121>>, <<119>>>>}

UrlQueries == UNION {[keys -> UrlQueryValues] : keys \in SUBSET UrlQueryKeys}

\* Lines 70-78: the oauth parameters, then per query key its first value.
AllParams ==
    [k \in DOMAIN oauthParams \cup DOMAIN urlQuery |->
        IF k \in DOMAIN urlQuery /\ Len(urlQuery[k]) > 0 THEN urlQuery[k][1]
        ELSE oauthParams[k]]

\* Lines 80-95: the keys sorted, then escape(key) "=" escape(value) per key.
ParamParts ==
    LET keys == SortStrings(DOMAIN AllParams) IN
    [i \in 1..Len(keys) |->
        [key |-> keys[i],
         text |-> QueryEscape(keys[i]) \o Equals \o QueryEscape(AllParams[keys[i]])]]

\* paramString := strings.Join(paramParts, "&")
ParamString == Join([i \in 1..Len(paramParts) |-> paramParts[i].text], Ampersand)

InitSign ==
    /\ RetryIdle
    /\ clientContentType = EmptyContentType
    /\ BuilderIdle
    /\ PipeIdle
    /\ oauthParams = OAuthParams
    /\ urlQuery \in UrlQueries
    /\ signed = FALSE
    /\ paramParts = <<>>

generateOAuth1Signature ==
    /\ ~signed
    /\ signed' = TRUE
    /\ paramParts' = ParamParts
    /\ UNCHANGED <<requestVars, builderVars, pipeVars, oauthParams, urlQuery>>

NextSign == generateOAuth1Signature

SpecSign == InitSign /\ [][NextSign]_vars

-----------------------------------------------------------------------------
(* buildMultipartForm: the writer goroutine, the pipe and the read end       *)

ErrClosedPipe == "io: read/write on closed pipe"

\* The error a file's source stream can return to io.Copy.
ErrSource == "source read failed"

FieldNames == {"a", "b"}
FileNames == {"f", "g"}

\* The value AddField is called with for a field, the data AddFile is called
\* with for a file.
FieldValue(name) == IF name = "a" THEN <<1>> ELSE <<2>>
FileData(name) == IF name = "f" THEN <<104, 101, 108, 108, 111>> ELSE <<103>>

Step(op, chunk) == [op |-> op, chunk |-> chunk]

\* WriteField: CreateFormField writes the part's header, then the value.
RECURSIVE FieldSteps(_)
FieldSteps(fields) ==
    IF fields = <<>> THEN <<>>
    ELSE <<Step("write", Chunk("field", Head(fields).Name, <<>>)),
           Step("write", Chunk("data", "", Head(fields).Value))>>
         \o FieldSteps(Tail(fields))

\* CreateFormFile writes the part's header; then io.Copy from the Reader, or
\* one Write of Data.
RECURSIVE FileSteps(_)
FileSteps(files) ==
    IF files = <<>> THEN <<>>
    ELSE <<Step("write", Chunk("file", Head(files).FieldName, <<>>)),
           IF Head(files).Reader THEN Step("copy", NoChunk)
           ELSE Step("write", Chunk("data", "", Head(files).Data))>>
         \o FileSteps(Tail(files))

Steps_FilesFirst(plan) ==
    FileSteps(plan.Files) \o FieldSteps(plan.Fields)
        \o <<Step("write", Chunk("close", "", <<>>))>>

\* The goroutine's writes in program order: the fields loop, the files loop,
\* writer.Close() with the closing boundary.
Steps(plan) ==
    FieldSteps(plan.Fields) \o FileSteps(plan.Files)
        \o <<Step("write", Chunk("close", "", <<>>))>>

CurrentStep == Steps(formData)[item]

OnError_Continue(e) == "run"

\* if writeErr != nil { return }
OnError(e) == IF e # "nil" THEN "deferred" ELSE "run"

\* Where the goroutine stands once the operation of the current step has
\* returned e: at the deferred function after an error or after
\* writer.Close(), in io.Copy's loop after a chunk, at the next step otherwise.
After(e, copied) ==
    IF OnError(e) = "deferred" THEN [wpc |-> "deferred", item |-> item, srcPos |-> srcPos]
    ELSE IF copied THEN [wpc |-> "run", item |-> item, srcPos |-> srcPos + 1]
    ELSE IF item = Len(Steps(formData))
         THEN [wpc |-> "deferred", item |-> item, srcPos |-> srcPos]
         ELSE [wpc |-> "run", item |-> item + 1, srcPos |-> 0]

Resume(e, copied) ==
    /\ writeErr' = e
    /\ wpc' = After(e, copied).wpc
    /\ item' = After(e, copied).item
    /\ srcPos' = After(e, copied).srcPos

CloseWrite_Never(p, e) == p

\* The deferred function: pipeWriter.CloseWithError(writeErr) or Close().
CloseWrite(p, e) == [p EXCEPT !.wclosed = TRUE, !.werr = e]

\* MultipartFormBuilder.AddField
AddField ==
    /\ wpc = "none"
    /\ \E name \in FieldNames :
          /\ \A i \in 1..Len(formData.Fields) : formData.Fields[i].Name # name
          /\ formData' = [formData EXCEPT
                 !.Fields = Append(@, FormField(name, FieldValue(name)))]
    /\ UNCHANGED <<builderVars, signVars, pipeVars, config, body, contentType, streamPos,
                   boundaries, mode, pc, attempt, resp, err, lastResp, lastErr,
                   events, sent, bodies, ret>>

\* MultipartFormBuilder.AddFile
AddFile ==
    /\ wpc = "none"
    /\ \E name \in FileNames :
          /\ \A i \in 1..Len(formData.Files) : formData.Files[i].FieldName # name
          /\ formData' = [formData EXCEPT
                 !.Files = Append(@, FormFile(name, FileData(name), FALSE))]
    /\ UNCHANGED <<builderVars, signVars, pipeVars, config, body, contentType, streamPos,
                   boundaries, mode, pc, attempt, resp, err, lastResp, lastErr,
                   events, sent, bodies, ret>>

\* MultipartFormBuilder.AddFileReader
AddFileReader ==
    /\ wpc = "none"
    /\ \E name \in FileNames :
          /\ \A i \in 1..Len(formData.Files) : formData.Files[i].FieldName # name
          /\ formData' = [formData EXCEPT
                 !.Files = Append(@, FormFile(name, <<>>, TRUE))]
    /\ UNCHANGED <<builderVars, signVars, pipeVars, config, body, contentType, streamPos,
                   boundaries, mode, pc, attempt, resp, err, lastResp, lastErr,
                   events, sent, bodies, ret>>

\* buildRequest of one attempt with a multipart body: buildMultipartForm
\* makes the pipe and starts the goroutine; then NewRequestWithContext either
\* fails on the method, and the read end is returned to nobody, or gives the
\* read end to the request that the transport sends.
EncodeAndBuild ==
    /\ wpc = "none"
    /\ wpc' = "run"
    /\ item' = 1
    /\ srcPos' = 0
    /\ pipe' = OpenPipe
    /\ rd' = IF methodOk THEN "transport" ELSE "dropped"
    /\ UNCHANGED <<requestVars, builderVars, signVars, writeErr, pw, received, readResult>>

\* The goroutine calls Write on the pipe: it fails at once when the read end
\* is closed, and blocks until a Read takes the data otherwise.
WriterWrite ==
    /\ wpc = "run"
    /\ \/ CurrentStep.op = "write"
       \/ CurrentStep.op = "copy" /\ srcPos < StreamLen
    /\ IF pipe.rclosed
       THEN /\ Resume(ErrClosedPipe, FALSE)
            /\ UNCHANGED pw
       ELSE /\ pw' = IF CurrentStep.op = "copy"
                     THEN Chunk("data", "", <<StreamContent[srcPos + 1]>>)
                     ELSE CurrentStep.chunk
            /\ wpc' = "blocked"
            /\ UNCHANGED <<item, srcPos, writeErr>>
    /\ UNCHANGED <<requestVars, builderVars, signVars, pipe, received, readResult, rd>>

\* io.Copy reads the file's Reader: the stream ends, or the read fails.
WriterSource ==
    /\ wpc = "run"
    /\ CurrentStep.op = "copy"
    /\ \/ srcPos = StreamLen /\ Resume("nil", FALSE)
       \/ Resume(ErrSource, FALSE)
    /\ UNCHANGED <<requestVars, builderVars, signVars, pw, pipe, received, readResult, rd>>

\* The goroutine returns: the deferred function closes the write end.
WriterDeferred ==
    /\ wpc = "deferred"
    /\ pipe' = CloseWrite(pipe, writeErr)
    /\ wpc' = "done"
    /\ UNCHANGED <<requestVars, builderVars, signVars, item, srcPos, writeErr, pw, received,
                   readResult, rd>>

\* The transport reads the request body: it takes the data of the blocked
\* Write, or finds the write end closed; it blocks otherwise.
PipeRead ==
    /\ rd = "transport"
    /\ readResult = "none"
    /\ \/ /\ pw # NoChunk
          /\ received' = Append(received, pw)
          /\ pw' = NoChunk
          /\ Resume("nil", CurrentStep.op = "copy")
          /\ UNCHANGED readResult
       \/ /\ pw = NoChunk
          /\ pipe.wclosed
          /\ readResult' = IF pipe.werr = "nil" THEN "EOF" ELSE pipe.werr
          /\ UNCHANGED <<wpc, item, srcPos, writeErr, pw, received>>
    /\ UNCHANGED <<requestVars, builderVars, signVars, pipe, rd>>

\* The transport closes the request body, after reading it to the end or
\* before: a blocked Write returns ErrClosedPipe.
TransportClose ==
    /\ rd = "transport"
    /\ rd' = "closed"
    /\ pipe' = [pipe EXCEPT !.rclosed = TRUE]
    /\ IF pw # NoChunk
       THEN pw' = NoChunk /\ Resume(ErrClosedPipe, FALSE)
       ELSE UNCHANGED <<wpc, item, srcPos, writeErr, pw>>
    /\ UNCHANGED <<requestVars, builderVars, signVars, received, readResult>>

InitPipe ==
    /\ AttemptIdle
    /\ clientContentType = EmptyContentType
    /\ methodOk \in BOOLEAN
    /\ formData = Plan(<<>>, <<>>)
    /\ BuilderIdle
    /\ SignIdle
    /\ PipeIdle

Writer == WriterWrite \/ WriterSource \/ WriterDeferred

NextPipe ==
    \/ AddField
    \/ AddFile
    \/ AddFileReader
    \/ EncodeAndBuild
    \/ WriterWrite
    \/ WriterSource
    \/ WriterDeferred
    \/ PipeRead
    \/ TransportClose

SpecPipe == InitPipe /\ [][NextPipe]_vars

\* The goroutine runs whenever it can, and a Read of the transport returns
\* whenever it can.
SpecPipeFair == SpecPipe /\ WF_vars(Writer) /\ WF_vars(PipeRead)

-----------------------------------------------------------------------------
(* C11 *)

\* C11: the client's default query-parameter and header maps hold what they
\* held at Build, whatever the request builders do.
C11_ClientDefaultsReadOnly ==
    /\ heap[ClientQueryParams] = defaults.query
    /\ heap[ClientHeaders] = defaults.headers

-----------------------------------------------------------------------------
(* C16 *)

\* C16: in the URL an attempt builds, every key the request or the client
\* defaults set occurs exactly once, with the value the request passed to
\* QueryParam when it passed one, and otherwise the client's default.
C16_QueryMerge ==
    \A r \in Reqs :
        out[r].built =>
            \A k \in QueryKeys :
                LET want == IF out[r].asked[k] # None THEN out[r].asked[k]
                            ELSE defaults.query[k]
                IN  want # None => out[r].query[k] = <<want>>

-----------------------------------------------------------------------------
(* C18 *)

\* C18: no map is written by one request and read or written by another.
C18_NoSharedMapWritten ==
    \A a, b \in accesses :
        (a.req # b.req /\ a.map = b.map) => (a.kind = "read" /\ b.kind = "read")

-----------------------------------------------------------------------------
(* C17 *)

\* Neither the client's headers nor the request's Header calls name
\* Content-Type: the header is then the executor's alone.
ExecutorOwnsContentType(r) ==
    /\ out[r].built
    /\ defaults.headers["Content-Type"] = None
    /\ out[r].asked["Content-Type"] = None

\* C17: the executor sets Content-Type only if a body is present; with a body
\* it is the content type the request selected, and otherwise the client's
\* default content type when the client has one.
C17_ContentTypeChoice ==
    \A r \in Reqs :
        ExecutorOwnsContentType(r) =>
            LET sentCt == out[r].headers["Content-Type"] IN
            /\ ~out[r].builder.body => sentCt = None
            /\ (out[r].builder.body /\ out[r].selected) =>
                   sentCt = out[r].builder.contentType.media
            /\ (out[r].builder.body /\ ~out[r].selected
                    /\ clientContentType # EmptyContentType) =>
                   sentCt = clientContentType.media

-----------------------------------------------------------------------------
(* C20 *)

\* The values map m holds under the spellings of header name n.
ValuesFor(m, n) ==
    {m[k] : k \in {x \in HeaderKeys : CanonicalHeaderKey(x) = n /\ m[x] # None}}

\* C20, key by key as spelled: per-request value for a key of both maps, client value
\* for a key of the client defaults only.
C20_PerRequestWinsEveryKey ==
    \A r \in Reqs :
        out[r].built =>
            \A k \in HeaderKeys :
                LET sentValue == out[r].headers[CanonicalHeaderKey(k)] IN
                defaults.headers[k] # None =>
                    IF out[r].asked[k] # None THEN sentValue = out[r].asked[k]
                    ELSE sentValue = defaults.headers[k]

\* The executor writes Content-Type itself when the request has a body.
ExecutorWrites(r, n) == n = "Content-Type" /\ out[r].builder.body

\* C20, by canonical header name: apart from Content-Type on a
\* request with a body, the request carries a per-request value when the
\* request gave one, else a client default when there is one, else only the
\* OAuth1 Authorization header when OAuth1 is configured.
C20_PerRequestWinsByName ==
    \A r \in Reqs :
        out[r].built =>
            \A n \in HeaderNames :
                LET sentValue == out[r].headers[n]
                    requestValues == ValuesFor(out[r].asked, n)
                    clientValues == ValuesFor(defaults.headers, n)
                IN  ~ExecutorWrites(r, n) =>
                        IF requestValues # {} THEN sentValue \in requestValues
                        ELSE IF clientValues # {} THEN sentValue \in clientValues
                        ELSE IF n = "Authorization" /\ oauth1 THEN sentValue = OAuthHeader
                        ELSE sentValue = None

\* An attempt of a request that overrides the client's Authorization header
\* and the OAuth1 signature's.
C20_Witness ==
    /\ out[1].built
    /\ oauth1
    /\ defaults.headers["Authorization"] # None
    /\ out[1].asked["Authorization"] # None
    /\ out[1].headers["Authorization"] = RequestHeaderValue(1, "Authorization")
    /\ defaults.headers["X-A"] # None
    /\ out[1].asked["X-A"] = None
    /\ out[1].asked["x-a"] = None
    /\ out[1].headers["X-A"] = ClientValue("X-A")

-----------------------------------------------------------------------------
(* C19 *)

\* The merged parameter set, each pair encoded, the pairs joined by "&".
MergedAndEncoded ==
    /\ {paramParts[i].key : i \in 1..Len(paramParts)}
           = DOMAIN oauthParams \cup DOMAIN urlQuery
    /\ \A i \in 1..Len(paramParts) :
           LET key == paramParts[i].key
               value == IF key \in DOMAIN urlQuery THEN urlQuery[key][1]
                        ELSE oauthParams[key]
           IN  paramParts[i].text = QueryEscape(key) \o Equals \o QueryEscape(value)
    /\ \A b \in 1..Len(ParamString) :
           \/ Unreserved(ParamString[b])
           \/ ParamString[b] \in {37, 43} \cup {Equals[1], Ampersand[1]}
    /\ Cardinality({b \in 1..Len(ParamString) : ParamString[b] = Ampersand[1]})
           = Len(paramParts) - 1
    /\ Cardinality({b \in 1..Len(ParamString) : ParamString[b] = Equals[1]})
           = Len(paramParts)

\* C19, ordered by pair: the pairs are in ascending order of their encoded
\* "key=value" strings.
C19_SortedByEncodedPair ==
    signed =>
        /\ MergedAndEncoded
        /\ \A i, j \in 1..Len(paramParts) :
               i < j => Less(paramParts[i].text, paramParts[j].text)

\* C19, ordered by key: the parameter set is the oauth parameters merged with the
\* URL's query (first query value replacing the oauth value), every key and
\* value is escaped, and the pairs are in ascending order of their unescaped
\* keys, joined by "&".
C19_SortedByRawKey ==
    signed =>
        /\ MergedAndEncoded
        /\ \A i, j \in 1..Len(paramParts) :
               i < j => Less(paramParts[i].key, paramParts[j].key)

\* A signed URL whose query holds "a" and "a1", "a|" and "az", and a key
\* that collides with an oauth parameter.
C19_Witness ==
    /\ signed
    /\ UrlQueryKeys \subseteq DOMAIN urlQuery
    /\ Len(urlQuery[OAuthNonce]) = 2
    /\ Len(paramParts) = 11

-----------------------------------------------------------------------------
(* C12 *)

\* C12: once encoding was started, the writer goroutine eventually
\* terminates with the write end closed, whichever way the request goes.
C12_WriterTerminates ==
    (wpc # "none") ~> (wpc = "done" /\ pipe.wclosed)

-----------------------------------------------------------------------------
(* C13 *)

\* C13: a transport that reads the body eventually gets end-of-stream or an
\* error from a Read, unless it stops reading and closes the body; and a
\* writer that has completed has closed the write end.
C13_ReaderNeverStuck ==
    /\ [](wpc = "done" => pipe.wclosed)
    /\ (rd = "transport") ~> (readResult # "none" \/ rd = "closed")

\* The transport read the body up to the closing boundary and then got
\* end-of-stream, the goroutine having returned.
C13_Witness ==
    /\ rd = "transport"
    /\ readResult = "EOF"
    /\ wpc = "done"
    /\ Len(formData.Fields) + Len(formData.Files) = 4
    /\ received[Len(received)].kind = "close"

-----------------------------------------------------------------------------
(* C14 *)

\* What the reader has got when the goroutine stands at its current step
\* with nothing pending: the chunks of the earlier steps, and the chunks
\* copied so far from the current file's Reader.
RECURSIVE WrittenBefore(_, _)
WrittenBefore(steps, n) ==
    IF n = 0 THEN <<>>
    ELSE WrittenBefore(steps, n - 1)
         \o (IF steps[n].op = "copy"
             THEN [i \in 1..(IF n = item THEN srcPos ELSE StreamLen) |->
                      Chunk("data", "", <<StreamContent[i]>>)]
             ELSE IF n = item THEN <<>> ELSE <<steps[n].chunk>>)

\* C14: after a failed write the goroutine writes nothing more: it is at or
\* past its deferred function with no Write pending, the reader has got
\* exactly what was written before the failure and no closing boundary, the
\* write end gets closed with that error, and a Read then returns that error.
C14_FirstErrorAborts ==
    writeErr # "nil" =>
        /\ wpc \in {"deferred", "done"}
        /\ pw = NoChunk
        /\ received = WrittenBefore(Steps(formData), item)
        /\ \A i \in 1..Len(received) : received[i].kind # "close"
        /\ wpc = "done" => (pipe.wclosed /\ pipe.werr = writeErr)
        /\ readResult \in {"none", writeErr}

\* A file's source stream failed after a chunk was copied, with another file
\* still to come, and the transport's Read returned that error.
C14_Witness ==
    /\ writeErr = ErrSource
    /\ readResult = ErrSource
    /\ srcPos > 0
    /\ item < Len(Steps(formData)) - 1
    /\ received # <<>>

-----------------------------------------------------------------------------
(* C15 *)

\* A multipart parser: a header opens a part, content after it belongs to
\* that part, the closing boundary ends the stream.
RECURSIVE Decode(_, _)
Decode(chunks, parts) ==
    IF chunks = <<>> THEN parts
    ELSE LET c == Head(chunks) IN
         IF c.kind = "close" THEN parts
         ELSE IF c.kind \in {"field", "file"}
         THEN Decode(Tail(chunks), Append(parts, Part(c.name, <<>>)))
         ELSE IF parts = <<>> THEN Decode(Tail(chunks), parts)
         ELSE Decode(Tail(chunks),
                     [parts EXCEPT ![Len(parts)].content = @ \o c.data])

\* The content a file of the plan has.
FileContent(file) == IF file.Reader THEN StreamContent ELSE file.Data

\* C15: a stream read to its clean end decodes to one part per field, in
\* insertion order, followed by one part per file, in insertion order, each
\* with its name and content, and ends with the one closing boundary.
C15_FieldsThenFiles ==
    readResult = "EOF" =>
        LET decoded == Decode(received, <<>>)
            nFields == Len(formData.Fields)
            nFiles == Len(formData.Files)
        IN  /\ Len(decoded) = nFields + nFiles
            /\ \A i \in 1..nFields :
                   decoded[i] = Part(formData.Fields[i].Name, formData.Fields[i].Value)
            /\ \A j \in 1..nFiles :
                   decoded[nFields + j] = Part(formData.Files[j].FieldName,
                                               FileContent(formData.Files[j]))
            /\ {i \in 1..Len(received) : received[i].kind = "close"} = {Len(received)}

\* Field a=1 and file f with content hello, read to the end.
C15_Witness ==
    /\ readResult = "EOF"
    /\ formData = Plan(<<FormField("a", <<1>>)>>,
                       <<FormFile("f", <<104, 101, 108, 108, 111>>, FALSE)>>)
    /\ Decode(received, <<>>) = <<Part("a", <<1>>), Part("f", <<104, 101, 108, 108, 111>>)>>

-----------------------------------------------------------------------------
(* C21 *)

\* The milliseconds slept in the first n events.
RECURSIVE SleptIn(_)
SleptIn(n) ==
    IF n = 0 THEN 0
    ELSE SleptIn(n - 1) + (IF events[n].type = "sleep" THEN events[n].n ELSE 0)

TotalSlept == SleptIn(Len(events))

\* The attempt ended in a way the policy retries: a timeout, a DNS failure,
\* or a response with status 429 or >= 500.
RetryableOutcome(ev) ==
    \/ ev.err \in {"timeout", "dns"}
    \/ Completed(ev) /\ RetryableStatus(ev.status)

\* The request has returned after maxRetries+1 attempts, all retryable.
BudgetExhausted ==
    /\ pc = "done"
    /\ Attempts = maxRetries + 1
    /\ \A i \in AttemptIdx : RetryableOutcome(events[i])

WorstCaseSleep == (maxRetries * backoffMs * (maxRetries + 1)) \div 2

\* C21: a request that exhausts its budget has slept exactly
\* maxRetries * backoffMs * (maxRetries+1) / 2 milliseconds in total, and no
\* request has ever slept longer than that.
C21_TotalSleep ==
    /\ BudgetExhausted => TotalSlept = WorstCaseSleep
    /\ TotalSlept <= WorstCaseSleep

\* A request with the largest budget that slept after every attempt but the
\* last.
C21_Witness ==
    /\ BudgetExhausted
    /\ maxRetries = MaxRetriesBound
    /\ Cardinality(SleepIdx) = maxRetries
    /\ TotalSlept = WorstCaseSleep
    /\ TotalSlept > backoffMs

-----------------------------------------------------------------------------
(* C22 *)

\* C22: a call that returns a nil error returns a response whose status is
\* not retryable; a response with a retryable status is returned only with a
\* non-nil error; and the response and the error returned are the last
\* attempt's: its response (for DoStream the one holding the last body
\* opened) with a nil error or ErrMaxRetriesExceeded, or no response with its
\* error.
C22_ReturnPairing ==
    pc = "done" =>
        /\ ret.err = "nil" =>
               (ret.resp.present /\ ~RetryableStatus(ret.resp.Status))
        /\ (ret.resp.present /\ RetryableStatus(ret.resp.Status)) => ret.err # "nil"
        /\ ret.resp.present =>
               /\ AttemptIdx # {}
               /\ Completed(LastAttempt)
               /\ ret.resp.Status = LastAttempt.status
               /\ ret.resp = resp
               /\ mode = "DoStream" => ret.resp.BodyReader = Len(bodies)
               /\ ret.err \in {"nil", ErrMaxRetriesExceeded}
        /\ (AttemptIdx # {} /\ ~Completed(LastAttempt)) =>
               (~ret.resp.present /\ ret.err = LastAttempt.err)

\* A retry after a 429 ended the budget with a 500: that response comes back
\* with ErrMaxRetriesExceeded.
C22_Witness ==
    /\ pc = "done"
    /\ Attempts >= 2
    /\ \E i \in AttemptIdx : Completed(events[i]) /\ events[i].status = 429
    /\ Completed(LastAttempt) /\ LastAttempt.status = 500
    /\ ret.resp.present /\ ret.resp.Status = 500
    /\ ret.err = ErrMaxRetriesExceeded

-----------------------------------------------------------------------------
(* C23 *)

\* C23: whatever maxRetries the client was built with, a call that has
\* returned has made at least one attempt, and it has not returned a nil
\* response with ErrMaxRetriesExceeded without a request handed to the
\* transport.
C23_AtLeastOneAttempt ==
    pc = "done" =>
        /\ Attempts >= 1
        /\ (~ret.resp.present /\ ret.err = ErrMaxRetriesExceeded) => sent # <<>>

-----------------------------------------------------------------------------
(* C24 *)

\* C24: with OAuth1 configured, every request an attempt builds carries the
\* Authorization header generateOAuth1Header returned, whatever the client's
\* default headers and the request's headers hold.
C24_OAuthHeaderSent ==
    \A r \in Reqs :
        (out[r].built /\ oauth1) => out[r].headers["Authorization"] = OAuthHeader

====
